---- MODULE Spec2Model ----
(***************************************************************************)
(* The elevator game's engine (src/src/game/sim.ts): the world State, the  *)
(* tick (update), the command dispatcher (handleAction) and the driver     *)
(* loop (mainLoop) that feeds actions to it.                               *)
(*                                                                         *)
(* Floors and elevators are indexed from 0 as in the source.  An action    *)
(* string is modelled by its tokens after split(" "): the first token is   *)
(* the word, the others are the arguments handed to parseInt.  An event    *)
(* string is modelled as a tuple: its text, then the number it embeds.     *)
(***************************************************************************)
EXTENDS Integers, Sequences, FiniteSets

\* ---------------------------------------------------------------- bounds
\* The configuration the world is built from (scaled down), and the caps
\* that keep the unbounded parts of the state finite.
NumFloors == 3
NumElevators == 2
\* Worlds are built with every elevator capacity in 1 .. Capacity.
Capacity == 2
StartTime == 8
\* Commands the caller issues in one run.
MaxCommands == 2
\* Passengers in the world when an arrival is still drawn.
MaxPassengers == 2
\* Arrivals are drawn in the first ArrivalTicks ticks.
ArrivalTicks == 2
\* VIP and Mechanic rolls are drawn while the world holds fewer passengers
\* than this.
BonusCrowd == 1
\* Ticks the warm-up loop is followed past timeRemaining = 0.
Overtime == 1
\* Passengers in the elevators whose rides are enumerated one by one.
MaxRiders == 3

\* ------------------------------------------------------ program constants
VipScore == 11
MechanicTime == 20
BrickPenalty == 5
PassengerScore == 1

FloorIds == 0 .. (NumFloors - 1)
ElevatorIds == 0 .. (NumElevators - 1)

PassengerKind == {"Passenger", "Brick", "VIP", "Mechanic"}

makePassenger(kind, targetFloor) == [kind |-> kind, targetFloor |-> targetFloor]

passengerPool == << <<"Passenger", 10>>, <<"Brick", 0>>, <<"VIP", 3>>, <<"Mechanic", 1>> >>

RECURSIVE SumWeights(_, _)
SumWeights(pool, k) ==
    IF k > Len(pool) THEN 0 ELSE pool[k][2] + SumWeights(pool, k + 1)

passengerPoolTotal == SumWeights(passengerPool, 1)

\* The fields of the State object; where mainLoop stands (pc); the number of
\* commands (non-empty actions) the main loop has handled (issued); and, for
\* each elevator, the trip it is on (trip): the floor it stood on with its
\* doors closed and one destination queued, that destination, and the ticks
\* applied since, no command having been handled in between.
VARIABLES score, failed, timeRemaining, floors, elevators, events, pc, issued, trip

vars == <<score, failed, timeRemaining, floors, elevators, events, pc, issued, trip>>

\* The State object the engine's functions take and return.
State ==
    [score |-> score, failed |-> failed, timeRemaining |-> timeRemaining,
     floors |-> floors, elevators |-> elevators, events |-> events]

\* ------------------------------------------------------------- game logic

handleDebarkVipTen(state, passenger) ==
    CASE passenger.kind = "VIP" ->
            [state EXCEPT !.score = @ + 10,
                          !.events = Append(@, <<"+10 bonus score!">>)]
      [] passenger.kind = "Mechanic" ->
            [state EXCEPT !.timeRemaining = @ + MechanicTime,
                          !.events = Append(@, <<"+20 time gained!">>)]
      [] passenger.kind = "Brick" ->
            [state EXCEPT !.score = @ - BrickPenalty,
                          !.events = Append(@, <<"-5 score from delivering brick.">>)]
      [] OTHER ->
            [state EXCEPT !.score = @ + PassengerScore]

handleDebark(state, passenger) ==
    CASE passenger.kind = "VIP" ->
            [state EXCEPT !.score = @ + VipScore,
                          !.events = Append(@, <<"+10 bonus score!">>)]
      [] passenger.kind = "Mechanic" ->
            [state EXCEPT !.timeRemaining = @ + MechanicTime,
                          !.events = Append(@, <<"+20 time gained!">>)]
      [] passenger.kind = "Brick" ->
            [state EXCEPT !.score = @ - BrickPenalty,
                          !.events = Append(@, <<"-5 score from delivering brick.">>)]
      [] OTHER ->
            [state EXCEPT !.score = @ + PassengerScore]

ScanFrontOnly(passengers, floor, j) ==
    IF j <= Len(passengers) /\ passengers[j].targetFloor = floor THEN j - 1
    ELSE -1

\* The scan of lines 102-108: the 0-based index of the first onboard
\* passenger whose target is the elevator's floor, or -1.
RECURSIVE ScanFrom(_, _, _)
ScanFrom(passengers, floor, j) ==
    IF j > Len(passengers) THEN -1
    ELSE IF passengers[j].targetFloor = floor THEN j - 1
    ELSE ScanFrom(passengers, floor, j + 1)

gettingOut(elevator) == ScanFrom(elevator.passengers, elevator.floor, 1)

HasRoomOffByOne(elevator) == Len(elevator.passengers) <= elevator.capacity

\* Line 123: the elevator has spare capacity.
HasRoom(elevator) == Len(elevator.passengers) < elevator.capacity

PushToFrontLost(state, f, passenger) == state

\* Line 119: the front passenger that cannot exit goes to the front of the
\* floor's line.
PushToFront(state, f, passenger) ==
    [state EXCEPT !.floors[f].passengers = <<passenger>> \o @]

BoardKeptInLine(state, i, f) ==
    [state EXCEPT
        !.elevators[i].passengers = <<Head(state.floors[f].passengers)>> \o @]

BoardAtBack(state, i, f) ==
    [state EXCEPT
        !.elevators[i].passengers = Append(@, Head(state.floors[f].passengers)),
        !.floors[f].passengers = Tail(@)]

\* Line 126: the front of the floor's line goes to the front of onboard.
Board(state, i, f) ==
    [state EXCEPT
        !.elevators[i].passengers = <<Head(state.floors[f].passengers)>> \o @,
        !.floors[f].passengers = Tail(@)]

\* The doors-open branch of the per-elevator step.
DoorsOpenStep(state, i) ==
    LET elevator == state.elevators[i]
        floor == state.floors[elevator.floor]
    IN  IF gettingOut(elevator) >= 0
        THEN \* Only the front passenger can get out.
             LET passenger == Head(elevator.passengers)
                 shifted == [state EXCEPT !.elevators[i].passengers = Tail(@)]
             IN  IF passenger.targetFloor = elevator.floor
                 THEN handleDebark(
                          [shifted EXCEPT !.events =
                               Append(@, <<"Elevator dropped off a passenger.", i>>)],
                          passenger)
                 ELSE PushToFront(shifted, elevator.floor, passenger)
        ELSE IF Len(floor.passengers) > 0 /\ HasRoom(elevator)
        THEN LET boarded == Board(state, i, elevator.floor)
             IN  IF Len(boarded.elevators[i].passengers) = elevator.capacity
                 THEN [boarded EXCEPT !.events =
                           Append(@, <<"Elevator is now full.", i>>)]
                 ELSE boarded
        ELSE LET closed == [state EXCEPT !.elevators[i].doorsOpen = FALSE]
             IN  IF Len(elevator.goingTo) = 0
                 THEN [closed EXCEPT !.events =
                           Append(@, <<"Elevator ready to move.", i>>)]
                 ELSE closed

DoorsClosedStepNoOpen(state, i) ==
    LET elevator == state.elevators[i]
    IN  IF elevator.goingTo[1] = elevator.floor
        THEN [state EXCEPT !.elevators[i].goingTo = Tail(@)]
        ELSE IF elevator.goingTo[1] < elevator.floor
        THEN [state EXCEPT !.elevators[i].floor = @ - 1]
        ELSE [state EXCEPT !.elevators[i].floor = @ + 1]

DoorsClosedStepExpress(state, i) ==
    LET elevator == state.elevators[i]
    IN  IF elevator.goingTo[1] = elevator.floor
        THEN [state EXCEPT !.elevators[i].goingTo = Tail(@),
                           !.elevators[i].doorsOpen = TRUE]
        ELSE [state EXCEPT !.elevators[i].floor = elevator.goingTo[1]]

\* The doors-closed branch: serve the front of goingTo.
DoorsClosedStep(state, i) ==
    LET elevator == state.elevators[i]
    IN  IF elevator.goingTo[1] = elevator.floor
        THEN [state EXCEPT !.elevators[i].goingTo = Tail(@),
                           !.elevators[i].doorsOpen = TRUE]
        ELSE IF elevator.goingTo[1] < elevator.floor
        THEN [state EXCEPT !.elevators[i].floor = @ - 1]
        ELSE [state EXCEPT !.elevators[i].floor = @ + 1]

ElevatorStepIdleReopens(state, i) ==
    IF state.elevators[i].doorsOpen THEN DoorsOpenStep(state, i)
    ELSE IF Len(state.elevators[i].goingTo) > 0 THEN DoorsClosedStep(state, i)
    ELSE [state EXCEPT !.elevators[i].doorsOpen = TRUE]

ElevatorStep(state, i) ==
    IF state.elevators[i].doorsOpen THEN DoorsOpenStep(state, i)
    ELSE IF Len(state.elevators[i].goingTo) > 0 THEN DoorsClosedStep(state, i)
    ELSE state

\* The loop of line 96, elevators in index order on the one State.
RECURSIVE ElevatorLoop(_, _)
ElevatorLoop(state, i) ==
    IF i >= NumElevators THEN state
    ELSE ElevatorLoop(ElevatorStep(state, i), i + 1)

TargetFloorNoSkip(originFloor, draw) == draw

\* Lines 153-158: a draw among the other floors.
TargetFloor(originFloor, draw) ==
    IF draw >= originFloor THEN draw + 1 ELSE draw

RECURSIVE PoolWalkNoSubtract(_, _)
PoolWalkNoSubtract(passengerRoll, k) ==
    IF k > Len(passengerPool) THEN "null"
    ELSE IF passengerRoll < passengerPool[k][2] THEN passengerPool[k][1]
    ELSE PoolWalkNoSubtract(passengerRoll, k + 1)

\* Lines 161-170: walk the pool, subtracting weights; "null" if no entry
\* is selected.
RECURSIVE PoolWalk(_, _)
PoolWalk(passengerRoll, k) ==
    IF k > Len(passengerPool) THEN "null"
    ELSE IF passengerRoll < passengerPool[k][2] THEN passengerPool[k][1]
    ELSE PoolWalk(passengerRoll - passengerPool[k][2], k + 1)

RollKind(passengerRoll) == PoolWalk(passengerRoll, 1)

\* What Math.random() gives one call of update: whether the arrival trial
\* succeeds, the origin floor, the target draw and the passenger roll.
Randoms ==
    [arrive : {TRUE}, originFloor : FloorIds, draw : 0 .. (NumFloors - 2),
     roll : 0 .. (passengerPoolTotal - 1)]

NoArrival == [arrive |-> FALSE, originFloor |-> 0, draw |-> 0, roll |-> 0]

\* Whether update throws at line 173.
UpdateThrows(rnd) == rnd.arrive /\ RollKind(rnd.roll) = "null"

Arrival(state, rnd) ==
    IF ~rnd.arrive \/ UpdateThrows(rnd) THEN state
    ELSE LET passenger ==
                 makePassenger(RollKind(rnd.roll),
                               TargetFloor(rnd.originFloor, rnd.draw))
         IN  [state EXCEPT
                 !.floors[rnd.originFloor].passengers = Append(@, passenger),
                 !.events = Append(@, <<"New passenger waiting at floor.",
                                        rnd.originFloor>>)]

OutOfTimeBelowZero(state) ==
    IF state.timeRemaining < 0
    THEN [state EXCEPT !.failed = TRUE,
                       !.events = Append(@, <<"Out of time. Final score:",
                                              state.score>>)]
    ELSE state

OutOfTime(state) ==
    IF state.timeRemaining <= 0
    THEN [state EXCEPT !.failed = TRUE,
                       !.events = Append(@, <<"Out of time. Final score:",
                                              state.score>>)]
    ELSE state

DecrementTwice(state) == [state EXCEPT !.timeRemaining = @ - 2]

Decrement(state) == [state EXCEPT !.timeRemaining = @ - 1]

update(state, rnd) ==
    LET stepped == ElevatorLoop(Decrement(state), 0)
    IN  IF UpdateThrows(rnd) THEN stepped
        ELSE OutOfTime(Arrival(stepped, rnd))

\* ------------------------------------------------------ command dispatch

\* A token of the action string: a decimal numeral (parseInt gives val) or
\* anything else (parseInt gives NaN).
Num(n) == [num |-> TRUE, val |-> n]
Junk == [num |-> FALSE, val |-> 0]

Cmd(word, args) == [word |-> word, args |-> args]

\* The empty string: one empty token.
EmptyAction == Cmd("", <<>>)

\* String.startsWith on the words the model uses.
StartsWith(word, prefix) ==
    <<word, prefix>> \in {<<"go", "go">>, <<"gone", "go">>, <<"dump", "dump">>,
                          <<"close", "close">>}

\* .slice(1).map(parseInt ... throw on NaN): whether the map throws.
ParseThrows(a) == \E k \in 1 .. Len(a.args) : ~a.args[k].num

ParsedArgs(a) == [k \in 1 .. Len(a.args) |-> a.args[k].val]

GoValidNoUpperBound(state, a) ==
    LET args == ParsedArgs(a)
    IN  /\ ~ParseThrows(a)
        /\ Len(args) = 2
        /\ ~(args[1] >= NumElevators)
        /\ ~(args[1] < 0 \/ args[2] < 0)

\* Lines 203-209: whether the go branch reaches the push of line 211.
GoValid(state, a) ==
    LET args == ParsedArgs(a)
    IN  /\ ~ParseThrows(a)
        /\ Len(args) = 2
        /\ ~(args[1] >= NumElevators \/ args[2] >= NumFloors)
        /\ ~(args[1] < 0 \/ args[2] < 0)

GoPushUnique(goingTo, floor) ==
    IF \E k \in 1 .. Len(goingTo) : goingTo[k] = floor
    THEN goingTo
    ELSE Append(goingTo, floor)

GoPushFront(goingTo, floor) == <<floor>> \o goingTo

GoPush(goingTo, floor) == Append(goingTo, floor)

GoBranch(state, a) ==
    IF GoValid(state, a)
    THEN [state EXCEPT !.elevators[ParsedArgs(a)[1]].goingTo =
                           GoPush(@, ParsedArgs(a)[2])]
    ELSE [state EXCEPT !.events =
              Append(@, <<"Invalid \"go\" command, need <elevator>, <target floor>.">>)]

\* Lines 227-232.
DumpValid(state, a) ==
    LET args == ParsedArgs(a)
    IN  /\ ~ParseThrows(a)
        /\ Len(args) = 1
        /\ ~(args[1] < 0 \/ args[1] >= NumElevators)
        /\ ~(state.elevators[args[1]].floor < NumFloors - 1)

EmptiedNot(elevator) == elevator

\* Line 237.
Emptied(elevator) == [elevator EXCEPT !.passengers = <<>>]

DoorsLeftAsIs(elevator) == elevator

\* Line 262.
DoorsForcedShut(elevator) == [elevator EXCEPT !.doorsOpen = FALSE]

DumpBranch(state, a) ==
    IF DumpValid(state, a)
    THEN LET e == ParsedArgs(a)[1]
         IN  [state EXCEPT
                 !.events = Append(@, <<"passengers dumped into the pit.",
                                        Len(state.elevators[e].passengers)>>),
                 !.elevators[e] = Emptied(@)]
    ELSE [state EXCEPT !.events =
              Append(@, <<"Invalid \"dump\" command, need <elevator> on floor",
                          NumFloors - 1>>)]

\* Lines 253-255.
CloseValid(state, a) ==
    LET args == ParsedArgs(a)
    IN  /\ ~ParseThrows(a)
        /\ Len(args) = 1
        /\ ~(args[1] < 0 \/ args[1] >= NumElevators)

CloseBranch(state, a) ==
    IF CloseValid(state, a)
    THEN LET e == ParsedArgs(a)[1]
         IN  [state EXCEPT
                 !.events = Append(@, <<"Forcibly closed elevator's door.", e>>),
                 !.elevators[e] = DoorsForcedShut(@)]
    ELSE [state EXCEPT !.events =
              Append(@, <<"Invalid \"close\" command, need <elevator>.">>)]

OtherBranch(state, a) ==
    [state EXCEPT !.events = Append(@, <<"Invalid action:", a.word>>)]

handleAction(state, a, rnd) ==
    IF a = EmptyAction THEN update(state, rnd)
    ELSE IF StartsWith(a.word, "go") THEN GoBranch(state, a)
    ELSE IF StartsWith(a.word, "dump") THEN DumpBranch(state, a)
    ELSE IF StartsWith(a.word, "close") THEN CloseBranch(state, a)
    ELSE OtherBranch(state, a)

\* ----------------------------------------------------------------- driver

RECURSIVE SumLen(_, _)
SumLen(f, k) == IF k < 0 THEN 0 ELSE Len(f[k].passengers) + SumLen(f, k - 1)

\* Line 279: the passengers waiting on all floors.
Waiting(state) == SumLen(state.floors, NumFloors - 1)

Onboard(state) == SumLen(state.elevators, NumElevators - 1)

NoTrip == [from |-> -1, to |-> -1, ticks |-> 0]

Distance(t) == IF t.to >= t.from THEN t.to - t.from ELSE t.from - t.to

TripFrom(elevator) ==
    IF /\ ~elevator.doorsOpen
       /\ Len(elevator.goingTo) = 1
       /\ elevator.goingTo[1] # elevator.floor
    THEN [from |-> elevator.floor, to |-> elevator.goingTo[1], ticks |-> 0]
    ELSE NoTrip

TripAfter(state, ticked) ==
    [e \in ElevatorIds |->
        IF ticked /\ trip[e] # NoTrip /\ trip[e].ticks <= Distance(trip[e])
        THEN [trip[e] EXCEPT !.ticks = @ + 1]
        ELSE TripFrom(state.elevators[e])]

\* The world mainLoop is started with (lines 305-319), for a capacity.
InitialState(capacity) ==
    [score |-> 0, failed |-> FALSE, timeRemaining |-> StartTime,
     floors |-> [f \in FloorIds |-> [passengers |-> <<>>]],
     elevators |-> [e \in ElevatorIds |->
                       [floor |-> 0, doorsOpen |-> TRUE, goingTo |-> <<>>,
                        capacity |-> capacity, passengers |-> <<>>]],
     events |-> <<>>]

Init ==
    \E capacity \in 1 .. Capacity :
        /\ score = InitialState(capacity).score
        /\ failed = InitialState(capacity).failed
        /\ timeRemaining = InitialState(capacity).timeRemaining
        /\ floors = InitialState(capacity).floors
        /\ elevators = InitialState(capacity).elevators
        /\ events = InitialState(capacity).events
        /\ pc = "warmup"
        /\ issued = 0
        /\ trip = [e \in ElevatorIds |-> NoTrip]

\* Where mainLoop stands once `state` is the loop's state: in the warm-up
\* loop while no floor has passengers, then in the main loop until failed.
LoopAt(at, state, thrown) ==
    IF thrown THEN "thrown"
    ELSE IF at = "warmup" /\ Waiting(state) = 0 THEN "warmup"
    ELSE IF ~state.failed THEN "main"
    ELSE "done"

Becomes(state, at, n) ==
    /\ trip' = TripAfter(state, n = issued)
    /\ score' = state.score
    /\ failed' = state.failed
    /\ timeRemaining' = state.timeRemaining
    /\ floors' = state.floors
    /\ elevators' = state.elevators
    /\ events' = state.events
    /\ pc' = at
    /\ issued' = n

\* The draws a tick may make: the arrival trial fails, or it succeeds with
\* any draws (within the arrival bounds).
TickRandoms ==
    IF /\ Waiting(State) + Onboard(State) < MaxPassengers
       /\ timeRemaining > StartTime - ArrivalTicks
    THEN IF Waiting(State) + Onboard(State) < BonusCrowd
         THEN {NoArrival} \cup Randoms
         ELSE {NoArrival} \cup {rnd \in Randoms : RollKind(rnd.roll) = "Passenger"}
    ELSE {NoArrival}

\* Lines 278-282: one iteration of the warm-up loop.
WarmupTick ==
    /\ pc = "warmup"
    /\ timeRemaining > -Overtime
    /\ \E rnd \in TickRandoms :
          Becomes(update(State, rnd),
                  LoopAt("warmup", update(State, rnd), UpdateThrows(rnd)),
                  issued)

\* Lines 284-291: one iteration of the main loop, reading action `a`.
MainStep(a, rnd) ==
    /\ pc = "main"
    /\ LET cleared == [State EXCEPT !.events = <<>>]
           after == handleAction(cleared, a, rnd)
       IN  Becomes(after,
                   LoopAt("main", after, a = EmptyAction /\ UpdateThrows(rnd)),
                   IF a = EmptyAction THEN issued ELSE issued + 1)

Tick ==
    /\ timeRemaining <= StartTime
    /\ \E rnd \in TickRandoms : MainStep(EmptyAction, rnd)

\* The actions the caller is followed on: every valid command, and for each
\* branch of handleAction one that it refuses.
GoActions ==
    {Cmd("go", <<Num(e), Num(f)>>) : e \in ElevatorIds, f \in FloorIds}
    \cup {Cmd("gone", <<Num(0), Num(0)>>), Cmd("go", <<Num(0), Num(NumFloors)>>)}

DumpActions ==
    {Cmd("dump", <<Num(e)>>) : e \in ElevatorIds} \cup {Cmd("dump", <<>>)}

CloseActions ==
    {Cmd("close", <<Num(e)>>) : e \in ElevatorIds} \cup {Cmd("close", <<Junk>>)}

OtherActions == {Cmd("open", <<Num(0)>>)}

Go == issued < MaxCommands /\ \E a \in GoActions : MainStep(a, NoArrival)

Dump == issued < MaxCommands /\ \E a \in DumpActions : MainStep(a, NoArrival)

Close == issued < MaxCommands /\ \E a \in CloseActions : MainStep(a, NoArrival)

Other == issued < MaxCommands /\ \E a \in OtherActions : MainStep(a, NoArrival)

Next == WarmupTick \/ Tick \/ Go \/ Dump \/ Close \/ Other

Spec == Init /\ [][Next]_vars

\* The same loop followed on fewer inputs: the passengers that arrive are
\* plain Passengers (roll 0), on floor 0 for any floor or on the last floor
\* for floor 0, and the caller issues go and close commands.
ServeRandoms ==
    {rnd \in TickRandoms :
        rnd.arrive =>
            /\ rnd.roll = 0
            /\ \/ rnd.originFloor = 0
               \/ rnd.originFloor = NumFloors - 1 /\ rnd.draw = 0}

ServeWarmupTick ==
    /\ pc = "warmup"
    /\ timeRemaining > -Overtime
    /\ \E rnd \in ServeRandoms :
          Becomes(update(State, rnd),
                  LoopAt("warmup", update(State, rnd), UpdateThrows(rnd)),
                  issued)

ServeTick ==
    /\ timeRemaining <= StartTime
    /\ \E rnd \in ServeRandoms : MainStep(EmptyAction, rnd)

ServeNext == ServeWarmupTick \/ ServeTick \/ Go \/ Close

\* The main loop does not stop handling actions while the game is on, and
\* the claim on the destinations supposes that ticks keep being applied.
ServeSpec == Init /\ [][ServeNext]_vars /\ WF_vars(ServeTick)

\* ================================================================ claims

\* A step that leaves `issued` as it is is a tick (a call of update); a step
\* that raises it is a command.
HasEvent(text) == \E k \in 1 .. Len(events) : events[k][1] = text

\* The front passenger of elevator e leaves at its target floor in the
\* next tick.
FrontDebarks(e) ==
    /\ elevators[e].doorsOpen
    /\ elevators[e].passengers # <<>>
    /\ Head(elevators[e].passengers).targetFloor = elevators[e].floor

MechanicsOut ==
    Cardinality({e \in ElevatorIds :
                    FrontDebarks(e) /\ Head(elevators[e].passengers).kind = "Mechanic"})

\* C1 as stated: every tick leaves timeRemaining exactly 1 lower, whoever
\* debarks in it.
C1_EveryTickOneLower ==
    [][issued' = issued => timeRemaining' = timeRemaining - 1]_vars

\* C1, amended: every tick leaves timeRemaining 1 lower, plus 20 for every
\* Mechanic that debarks in that tick (exactly 1 lower when none does).
C1_TickLowersTime ==
    [][issued' = issued =>
          timeRemaining' = timeRemaining - 1 + MechanicTime * MechanicsOut]_vars

\* A tick in which a Mechanic has debarked.
C1_Witness ==
    /\ HasEvent("Elevator dropped off a passenger.")
    /\ HasEvent("+20 time gained!")
    /\ timeRemaining > MechanicTime

\* C2 as stated: a tick started with failed = false sets failed iff
\* timeRemaining right after the decrement by 1 is <= 0.
C2_FailedByDecrement ==
    [][(issued' = issued /\ ~failed) => (failed' <=> timeRemaining - 1 <= 0)]_vars

\* C2, amended: a tick started with failed = false sets failed iff
\* timeRemaining at the end of the tick (after the debarks of that tick) is
\* <= 0.
C2_FailedAtEndOfTick ==
    [][(issued' = issued /\ ~failed) => (failed' <=> timeRemaining' <= 0)]_vars

\* A tick whose decrement reached 0 and in which a Mechanic debarked: the
\* game goes on.
C2_Witness ==
    /\ ~failed
    /\ timeRemaining = MechanicTime
    /\ HasEvent("+20 time gained!")

\* C3 as stated: an elevator that stood at floor f with doors closed and
\* the one destination d # f is, |d - f| ticks later and with no command in
\* between, at d with doors open and no destination.
C3_OpenOnArrival ==
    \A e \in ElevatorIds :
        (trip[e] # NoTrip /\ trip[e].ticks = Distance(trip[e])) =>
            /\ elevators[e].floor = trip[e].to
            /\ elevators[e].doorsOpen
            /\ elevators[e].goingTo = <<>>

\* C3, amended: after |d - f| ticks the elevator is at d with its doors
\* still closed and d still queued; after |d - f| + 1 ticks it is at d with
\* doors open and no destination.
C3_OpenOneTickAfterArrival ==
    \A e \in ElevatorIds :
        trip[e] # NoTrip =>
            /\ trip[e].ticks = Distance(trip[e]) =>
                   /\ elevators[e].floor = trip[e].to
                   /\ ~elevators[e].doorsOpen
                   /\ elevators[e].goingTo = <<trip[e].to>>
            /\ trip[e].ticks = Distance(trip[e]) + 1 =>
                   /\ elevators[e].floor = trip[e].to
                   /\ elevators[e].doorsOpen
                   /\ elevators[e].goingTo = <<>>

\* An elevator that has travelled the whole building and opened its doors.
C3_Witness ==
    \E e \in ElevatorIds :
        /\ trip[e] # NoTrip
        /\ Distance(trip[e]) = NumFloors - 1
        /\ trip[e].ticks = NumFloors
        /\ elevators[e].doorsOpen

\* C4: a valid go(e, f) appends f at the back of elevator e's queue
\* (duplicates kept) and changes nothing else of the state, events included.
C4_GoAppends ==
    \A e \in ElevatorIds, f \in FloorIds :
        handleAction(State, Cmd("go", <<Num(e), Num(f)>>), NoArrival) =
            [State EXCEPT !.elevators[e].goingTo = Append(@, f)]

\* Two go commands have queued the same floor twice.
C4_Witness ==
    /\ issued = 2
    /\ events = <<>>
    /\ \E e \in ElevatorIds :
           /\ Len(elevators[e].goingTo) = 2
           /\ elevators[e].goingTo[1] = elevators[e].goingTo[2]

\* The commands that violate a constraint in the current state and whose
\* action word is go, dump, close, or a word that begins with none of them.
C5_Violating ==
    {Cmd("go", <<Num(e), Num(f)>>) : e \in {-1, NumElevators}, f \in FloorIds}
    \cup {Cmd("go", <<Num(e), Num(f)>>) : e \in ElevatorIds, f \in {-1, NumFloors}}
    \cup {Cmd("go", <<>>), Cmd("go", <<Num(0)>>), Cmd("go", <<Num(0), Num(0), Num(0)>>),
          Cmd("go", <<Num(0), Junk>>), Cmd("go", <<Junk, Num(0)>>)}
    \cup {Cmd(w, <<Num(e)>>) : w \in {"dump", "close"}, e \in {-1, NumElevators}}
    \cup {Cmd(w, args) : w \in {"dump", "close"},
                         args \in {<<>>, <<Num(0), Num(0)>>, <<Junk>>}}
    \cup {Cmd("dump", <<Num(e)>>) :
              e \in {x \in ElevatorIds : elevators[x].floor # NumFloors - 1}}
    \cup {Cmd("open", <<Num(0)>>), Cmd("", <<Num(0)>>)}

\* The action words of the game. "gone" is none of them.
C5_ActionWords == {"go", "dump", "close"}

\* Commands with an unknown action word that begins with a known one.
C5_UnknownPrefixed ==
    {a \in {Cmd("gone", <<Num(e), Num(f)>>) : e \in ElevatorIds, f \in FloorIds} :
        a.word \notin C5_ActionWords}

C5_Failure(event) ==
    event[1] \in {"Invalid \"go\" command, need <elevator>, <target floor>.",
                  "Invalid \"dump\" command, need <elevator> on floor",
                  "Invalid \"close\" command, need <elevator>.",
                  "Invalid action:"}

\* The command changes nothing of the state but events, to which it appends
\* exactly one failure event.
C5_OnlyLogs(a) ==
    LET after == handleAction(State, a, NoArrival)
    IN  /\ [after EXCEPT !.events = <<>>] = [State EXCEPT !.events = <<>>]
        /\ Len(after.events) = Len(events) + 1
        /\ SubSeq(after.events, 1, Len(events)) = events
        /\ C5_Failure(after.events[Len(after.events)])

\* C5: a command that violates a constraint (an index out of range, a wrong
\* number of arguments, a dump off the last floor, an unknown action word)
\* changes nothing of the state but events, to which it appends exactly one
\* failure event.
C5_InvalidOnlyLogs ==
    \A a \in C5_Violating \cup C5_UnknownPrefixed : C5_OnlyLogs(a)

\* What holds of C5: the same, for the commands whose action word is go,
\* dump, close, or begins with none of the three.
C5_InvalidOnlyLogsUnlessPrefixed ==
    \A a \in C5_Violating : C5_OnlyLogs(a)

\* A dump was refused while an elevator off the last floor had passengers.
C5_Witness ==
    /\ issued > 0
    /\ Len(events) = 1
    /\ events[1][1] = "Invalid \"dump\" command, need <elevator> on floor"
    /\ \E e \in ElevatorIds :
           /\ elevators[e].floor # NumFloors - 1
           /\ elevators[e].passengers # <<>>

\* C6: dump(e) with elevator e on the last floor empties e's onboard list,
\* appends one event reporting how many were onboard, and changes nothing
\* else.
C6_DumpEmpties ==
    \A e \in ElevatorIds :
        elevators[e].floor = NumFloors - 1 =>
            handleAction(State, Cmd("dump", <<Num(e)>>), NoArrival) =
                [State EXCEPT
                    !.elevators[e].passengers = <<>>,
                    !.events = Append(@, <<"passengers dumped into the pit.",
                                           Len(elevators[e].passengers)>>)]

\* A passenger has been dumped from an elevator standing on the last floor
\* with its doors open.
C6_Witness ==
    /\ issued > 0
    /\ Len(events) = 1
    /\ events[1][1] = "passengers dumped into the pit."
    /\ events[1][2] >= 1
    /\ \E e \in ElevatorIds :
           /\ elevators[e].floor = NumFloors - 1
           /\ elevators[e].doorsOpen
           /\ elevators[e].passengers = <<>>

\* C7: close(e) leaves elevator e with doorsOpen = false at once, appends
\* one forced-closure event, and changes nothing else.
C7_CloseShuts ==
    \A e \in ElevatorIds :
        handleAction(State, Cmd("close", <<Num(e)>>), NoArrival) =
            [State EXCEPT
                !.elevators[e].doorsOpen = FALSE,
                !.events = Append(@, <<"Forcibly closed elevator's door.", e>>)]

\* The doors of an elevator were forced shut in the middle of boarding: three
\* ticks after the start (the earliest a passenger can be onboard, so the
\* doors stood open until the command) it holds a passenger, has room, and
\* another passenger waits on its floor.
C7_Witness ==
    /\ timeRemaining = StartTime - 3
    /\ Len(events) = 1
    /\ events[1][1] = "Forcibly closed elevator's door."
    /\ LET e == events[1][2]
       IN  /\ ~elevators[e].doorsOpen
           /\ elevators[e].passengers # <<>>
           /\ Len(elevators[e].passengers) < elevators[e].capacity
           /\ floors[elevators[e].floor].passengers # <<>>

\* --- passenger census

Passengers == [kind : PassengerKind, targetFloor : FloorIds]

CountIn(seq, p) == Cardinality({k \in 1 .. Len(seq) : seq[k] = p})

RECURSIVE Gathered(_, _)
Gathered(f, k) ==
    IF k < 0 THEN <<>> ELSE Gathered(f, k - 1) \o f[k].passengers

\* All passengers held, floor by floor and then elevator by elevator.
Held(fl, el) == Gathered(fl, NumFloors - 1) \o Gathered(el, NumElevators - 1)

Debarking(p) ==
    Cardinality({e \in ElevatorIds :
                    FrontDebarks(e) /\ Head(elevators[e].passengers) = p})

\* C8: the passengers held by floors and elevators change only by the
\* passengers that debark at their target floor in a tick (-1 each), the
\* arrival of that tick (+1, at the back of its floor), and a dump (all of
\* that elevator's); boarding, eviction and every other command leave every
\* passenger held exactly as often as before.
C8_Conservation ==
    [][LET before == Held(floors, elevators)
           after == Held(floors', elevators')
           new == IF pc = "warmup"
                  THEN SubSeq(events', Len(events) + 1, Len(events'))
                  ELSE events'
           arrivals == {k \in 1 .. Len(new) :
                           new[k][1] = "New passenger waiting at floor."}
           dumps == {k \in 1 .. Len(new) :
                        new[k][1] = "passengers dumped into the pit."}
       IN  \A p \in {before[k] : k \in 1 .. Len(before)}
                    \cup {after[k] : k \in 1 .. Len(after)} :
              IF issued' = issued
              THEN /\ Cardinality(arrivals) <= 1
                   /\ CountIn(after, p) =
                          CountIn(before, p) - Debarking(p)
                          + Cardinality({k \in arrivals :
                                LET q == floors'[new[k][2]].passengers
                                IN  q[Len(q)] = p})
              ELSE IF dumps # {}
              THEN \E e \in ElevatorIds :
                       /\ elevators'[e].passengers = <<>>
                       /\ new[1][2] = Len(elevators[e].passengers)
                       /\ CountIn(after, p) =
                              CountIn(before, p)
                              - CountIn(elevators[e].passengers, p)
              ELSE CountIn(after, p) = CountIn(before, p)]_vars

\* A front passenger that could not exit has been put on the floor's line:
\* the elevator stands open on the target floor of the passenger left in it.
C8_Witness ==
    \E e \in ElevatorIds :
        /\ elevators[e].doorsOpen
        /\ Len(elevators[e].passengers) = 1
        /\ elevators[e].passengers[1].targetFloor = elevators[e].floor
        /\ floors[elevators[e].floor].passengers # <<>>
        /\ floors[elevators[e].floor].passengers[1].targetFloor # elevators[e].floor
        /\ timeRemaining <= StartTime - 6

\* C9: every elevator holds between 0 and capacity passengers.
C9_Capacity ==
    \A e \in ElevatorIds :
        /\ 0 <= Len(elevators[e].passengers)
        /\ Len(elevators[e].passengers) <= elevators[e].capacity

\* Two elevators stand open on one floor, both full.
C9_Witness ==
    \E e1, e2 \in ElevatorIds :
        /\ e1 # e2
        /\ elevators[e1].floor = elevators[e2].floor
        /\ elevators[e1].doorsOpen /\ elevators[e2].doorsOpen
        /\ Len(elevators[e1].passengers) = elevators[e1].capacity
        /\ Len(elevators[e2].passengers) = elevators[e2].capacity

\* C10: every elevator's floor, every queued destination and every
\* passenger's target floor is a floor of the building.
C10_FloorBounds ==
    /\ \A e \in ElevatorIds :
           /\ elevators[e].floor \in FloorIds
           /\ \A k \in 1 .. Len(elevators[e].goingTo) :
                  elevators[e].goingTo[k] \in FloorIds
           /\ \A k \in 1 .. Len(elevators[e].passengers) :
                  elevators[e].passengers[k].targetFloor \in FloorIds
    /\ \A f \in FloorIds :
           \A k \in 1 .. Len(floors[f].passengers) :
               floors[f].passengers[k].targetFloor \in FloorIds

\* An elevator stands on the last floor, a passenger for the last floor
\* exists, and a go command has just been refused.
C10_Witness ==
    /\ \E e \in ElevatorIds : elevators[e].floor = NumFloors - 1
    /\ \E p \in Passengers :
           p.targetFloor = NumFloors - 1 /\ CountIn(Held(floors, elevators), p) > 0
    /\ Len(events) = 1
    /\ events[1][1] = "Invalid \"go\" command, need <elevator>, <target floor>."

\* --- scoring

\* What the claim gives a debarking passenger of a kind: its score and its
\* time.
C11_Score(kind) ==
    CASE kind = "VIP" -> 11
      [] kind = "Mechanic" -> 0
      [] kind = "Brick" -> -5
      [] OTHER -> 1

C11_Time(kind) == IF kind = "Mechanic" THEN 20 ELSE 0

\* The score the passengers debarking in the next tick bring, over
\* elevators 0 .. e.
RECURSIVE C11_ScoreOut(_)
C11_ScoreOut(e) ==
    IF e < 0 THEN 0
    ELSE C11_ScoreOut(e - 1)
         + (IF FrontDebarks(e) THEN C11_Score(Head(elevators[e].passengers).kind)
            ELSE 0)

RECURSIVE C11_TimeOut(_)
C11_TimeOut(e) ==
    IF e < 0 THEN 0
    ELSE C11_TimeOut(e - 1)
         + (IF FrontDebarks(e) THEN C11_Time(Head(elevators[e].passengers).kind)
            ELSE 0)

\* C11: a debark changes score by 11 for a VIP, -5 for a Brick, 1 for a
\* plain Passenger and 0 for a Mechanic, and timeRemaining by 20 for a
\* Mechanic and 0 for the others; a tick changes score by its debarks alone
\* and timeRemaining by its debarks and the decrement by 1; a command
\* changes neither.
C11_Scoring ==
    [][/\ \A p \in Passengers :
              /\ handleDebark(State, p).score = score + C11_Score(p.kind)
              /\ handleDebark(State, p).timeRemaining =
                     timeRemaining + C11_Time(p.kind)
       /\ issued' = issued =>
              /\ score' = score + C11_ScoreOut(NumElevators - 1)
              /\ timeRemaining' =
                     timeRemaining - 1 + C11_TimeOut(NumElevators - 1)
       /\ issued' # issued =>
              /\ score' = score
              /\ timeRemaining' = timeRemaining]_vars

\* A VIP has debarked in the tick that just ended, and the command before
\* it left the score alone.
C11_Witness ==
    /\ HasEvent("Elevator dropped off a passenger.")
    /\ HasEvent("+10 bonus score!")
    /\ score = 11
    /\ issued > 0

\* --- after the failure

\* C12: once failed is true, every later tick or command leaves score,
\* timeRemaining, floors, elevators and failed as they are, the ticks of the
\* warm-up loop included.
C12_FrozenOnceFailed ==
    [][failed =>
          /\ failed'
          /\ score' = score
          /\ timeRemaining' = timeRemaining
          /\ floors' = floors
          /\ elevators' = elevators]_vars

\* What holds of C12: failed stays true, timeRemaining stays <= 0, the main
\* loop handles no action once failed is true, and the steps taken with
\* failed true are ticks of the warm-up loop.
C12_MainLoopStopsOnceFailed ==
    [][failed =>
          /\ pc = "warmup"
          /\ issued' = issued
          /\ failed'
          /\ timeRemaining <= 0
          /\ timeRemaining' <= 0]_vars

\* The warm-up loop has applied a tick to a failed world.
C12_TickedOnceFailed ==
    /\ failed
    /\ timeRemaining < 0

\* --- the passenger roll

C13_Rolls == 0 .. 13

C13_Selecting(kind) == {roll \in C13_Rolls : RollKind(roll) = kind}

\* The selection, roll by roll.
C13_RollsSelect ==
    /\ passengerPoolTotal = 14
    /\ \A roll \in C13_Rolls : RollKind(roll) \in PassengerKind
    /\ Cardinality(C13_Selecting("Passenger")) = 10
    /\ Cardinality(C13_Selecting("VIP")) = 3
    /\ Cardinality(C13_Selecting("Mechanic")) = 1
    /\ Cardinality(C13_Selecting("Brick")) = 0
    /\ \A rnd \in Randoms : ~UpdateThrows(rnd)

\* C13: the pool weighs 14; each roll in [0, 14) selects one kind: 10 of
\* them Passenger, 3 VIP, 1 Mechanic and none Brick; update never throws,
\* and no Brick passenger waits on a floor or rides an elevator.
C13_WeightedKinds ==
    /\ C13_RollsSelect
    /\ pc # "thrown"
    /\ \A f \in FloorIds : \A k \in 1 .. Len(floors[f].passengers) :
           floors[f].passengers[k].kind # "Brick"
    /\ \A e \in ElevatorIds : \A k \in 1 .. Len(elevators[e].passengers) :
           elevators[e].passengers[k].kind # "Brick"

\* The last roll of the range has been drawn: its passenger, a Mechanic,
\* has just arrived at the back of a floor's line.
C13_Witness ==
    /\ HasEvent("New passenger waiting at floor.")
    /\ \E f \in FloorIds :
           /\ floors[f].passengers # <<>>
           /\ floors[f].passengers[Len(floors[f].passengers)].kind = "Mechanic"
    /\ RollKind(13) = "Mechanic"

\* --- the front-only exit

\* The State on which elevator i takes its step of the next tick: after
\* the decrement and the steps of the elevators before it.
RECURSIVE StateBefore(_)
StateBefore(i) ==
    IF i = 0 THEN Decrement(State) ELSE ElevatorStep(StateBefore(i - 1), i - 1)

\* Some onboard passenger of elevator e targets the floor it stands on.
SomeoneTargetsFloor(e) ==
    \E k \in 1 .. Len(elevators[e].passengers) :
        elevators[e].passengers[k].targetFloor = elevators[e].floor

DropOffs(evs, e) ==
    Cardinality({k \in 1 .. Len(evs) :
                    evs[k] = <<"Elevator dropped off a passenger.", e>>})

\* C14: in a tick, an elevator with doors open in which some onboard
\* passenger targets the current floor loses exactly its front passenger
\* and keeps the rest in order, its doors open, its floor and its queue. If
\* the front targets the floor it debarks: it is scored, one drop-off event
\* is logged and the floors are left alone. Otherwise it is put at the
\* front of the floor's line, the score is unchanged and no drop-off event
\* is logged.
C14_FrontOnlyExit ==
    [][issued' = issued =>
          \A e \in ElevatorIds :
              (elevators[e].doorsOpen /\ SomeoneTargetsFloor(e)) =>
                  LET s == StateBefore(e)
                      t == ElevatorStep(s, e)
                      f == elevators[e].floor
                      front == Head(elevators[e].passengers)
                  IN  /\ s.elevators[e] = elevators[e]
                      /\ t.elevators[e] =
                             [elevators[e] EXCEPT !.passengers = Tail(@)]
                      /\ elevators'[e] = t.elevators[e]
                      /\ \A o \in ElevatorIds \ {e} :
                             t.elevators[o] = s.elevators[o]
                      /\ t.failed = s.failed
                      /\ IF front.targetFloor = f
                         THEN /\ t.floors = s.floors
                              /\ t.score = s.score + C11_Score(front.kind)
                              /\ t.timeRemaining =
                                     s.timeRemaining + C11_Time(front.kind)
                              /\ DropOffs(t.events, e) = DropOffs(s.events, e) + 1
                              /\ DropOffs(events', e) = 1
                         ELSE /\ t.floors =
                                     [s.floors EXCEPT
                                         ![f].passengers = <<front>> \o @]
                              /\ t.score = s.score
                              /\ t.timeRemaining = s.timeRemaining
                              /\ t.events = s.events
                              /\ DropOffs(events', e) = 0]_vars

\* The front passenger of a full elevator has been put out on a floor that
\* is not its target, and no drop-off was logged: the passenger behind it
\* targets this floor and is now the front.
C14_Witness ==
    \E e \in ElevatorIds :
        /\ elevators[e].doorsOpen
        /\ elevators[e].capacity = 2
        /\ Len(elevators[e].passengers) = 1
        /\ FrontDebarks(e)
        /\ floors[elevators[e].floor].passengers # <<>>
        /\ Head(floors[elevators[e].floor].passengers).targetFloor
               # elevators[e].floor
        /\ ~HasEvent("Elevator dropped off a passenger.")
        /\ score = 0

\* --- stranding

\* n calls of update, each with the draws rnd.
RECURSIVE Ticks(_, _, _)
Ticks(state, rnd, n) ==
    IF n = 0 THEN state ELSE Ticks(update(state, rnd), rnd, n - 1)

\* The 0-based place of the first onboard passenger that targets the
\* elevator's floor, or -1.
C15_Place(elevator) ==
    LET matching == {k \in 1 .. Len(elevator.passengers) :
                        elevator.passengers[k].targetFloor = elevator.floor}
    IN  IF matching = {} THEN -1
        ELSE (CHOOSE k \in matching : \A m \in matching : k <= m) - 1

\* The rides in which a passenger that targets the elevator's floor stands
\* behind a front passenger that does not.
C15_Rides ==
    LET riders == [kind : {"Passenger"}, targetFloor : FloorIds]
        lines == UNION {[1 .. n -> riders] : n \in 2 .. MaxRiders}
    IN  {ride \in [floor : FloorIds, passengers : lines] : C15_Place(ride) >= 1}

\* The world `state` but for elevator 0, which stands open on the ride's
\* floor with the ride's passengers.
C15_World(state, ride) ==
    [state EXCEPT
        !.elevators[0].floor = ride.floor,
        !.elevators[0].doorsOpen = TRUE,
        !.elevators[0].capacity = MaxRiders,
        !.elevators[0].passengers = ride.passengers]

\* C15 as stated: some ride strands its passenger: tick after tick (as many
\* ticks as the elevator can hold passengers) the doors stay open and
\* nobody debarks.
C15_CanStrand ==
    \E ride \in C15_Rides :
        \A n \in 1 .. MaxRiders :
            LET w == Ticks(C15_World(State, ride), NoArrival, n)
            IN  /\ w.elevators[0].doorsOpen
                /\ DropOffs(w.events, 0) = DropOffs(events, 0)

\* From `state`, in which elevator e stands open with the first passenger
\* that targets its floor at 0-based place j >= 1: each of the next j ticks
\* removes one front passenger and leaves the doors open, and tick j + 1
\* debarks the passenger.
C15_DebarksInTurn(state, e, rnd) ==
    LET p == state.elevators[e].passengers
        j == C15_Place(state.elevators[e])
        last == Ticks(state, rnd, j + 1)
    IN  /\ \A n \in 1 .. j :
               LET w == Ticks(state, rnd, n)
               IN  /\ w.elevators[e] =
                          [state.elevators[e] EXCEPT
                              !.passengers = SubSeq(p, n + 1, Len(p))]
                   /\ DropOffs(w.events, e) = DropOffs(state.events, e)
        /\ last.elevators[e] =
               [state.elevators[e] EXCEPT
                   !.passengers = SubSeq(p, j + 2, Len(p))]
        /\ DropOffs(last.events, e) = DropOffs(state.events, e) + 1

\* Every enumerated ride, in the initial world.
C15_EveryRideDebarks ==
    \A ride \in C15_Rides :
        C15_DebarksInTurn(C15_World(InitialState(MaxRiders), ride), 0, NoArrival)

\* C15, amended: no passenger is stranded. While the doors of an elevator
\* stay open on floor f and the first onboard passenger that targets f has
\* j >= 1 passengers ahead of it, every tick puts the front passenger out
\* on the floor, and the passenger debarks in tick j + 1, whatever arrives.
C15_NoStranding ==
    /\ C15_EveryRideDebarks
    /\ \A e \in ElevatorIds :
           (elevators[e].doorsOpen /\ C15_Place(elevators[e]) >= 1) =>
               \A rnd \in {NoArrival} \cup Randoms :
                   C15_DebarksInTurn(State, e, rnd)

\* A full elevator has opened its doors on the target floor of the
\* passenger behind its front passenger, for whom this is not the floor.
C15_Witness ==
    \E e \in ElevatorIds :
        /\ elevators[e].doorsOpen
        /\ Len(elevators[e].passengers) = 2
        /\ C15_Place(elevators[e]) = 1
        /\ elevators[e].floor # 0

\* --- boarding

\* C16: in a tick, an elevator with doors open, no onboard passenger for
\* its floor, spare capacity and a non-empty line on its floor takes exactly
\* the front of that line onto the front of onboard and keeps its doors
\* open; it logs a "now full" event iff onboard then has capacity
\* passengers; nothing else changes in its step. The arrival of the tick is
\* appended at the back of its floor's line after all elevator steps, so the
\* elevators end the tick as their steps left them.
C16_Boarding ==
    [][issued' = issued =>
          /\ \A e \in ElevatorIds :
                 LET s == StateBefore(e)
                     t == ElevatorStep(s, e)
                     f == elevators[e].floor
                     line == s.floors[f].passengers
                     full == Len(elevators[e].passengers) + 1
                                 = elevators[e].capacity
                 IN  (/\ elevators[e].doorsOpen
                      /\ ~SomeoneTargetsFloor(e)
                      /\ Len(elevators[e].passengers) < elevators[e].capacity
                      /\ line # <<>>) =>
                         /\ t = [s EXCEPT
                                    !.elevators[e].passengers = <<Head(line)>> \o @,
                                    !.floors[f].passengers = Tail(line),
                                    !.events =
                                        IF full
                                        THEN Append(@, <<"Elevator is now full.", e>>)
                                        ELSE @]
                         /\ s.elevators[e] = elevators[e]
                         /\ elevators'[e] = t.elevators[e]
                         /\ elevators'[e].doorsOpen
          /\ LET done == StateBefore(NumElevators)
             IN  /\ elevators' = done.elevators
                 /\ \/ floors' = done.floors
                    \/ \E o \in FloorIds, p \in Passengers :
                           floors' = [done.floors EXCEPT
                                         ![o].passengers = Append(@, p)]]_vars

\* An elevator of capacity 1 has boarded the one passenger that waited on
\* its floor: it is full and says so, its doors are open, and the line is
\* empty.
C16_Witness ==
    \E e \in ElevatorIds :
        /\ elevators[e].capacity = 1
        /\ Len(elevators[e].passengers) = 1
        /\ elevators[e].doorsOpen
        /\ floors[elevators[e].floor].passengers = <<>>
        /\ \E k \in 1 .. Len(events) : events[k] = <<"Elevator is now full.", e>>

\* --- the idle elevator

Idle(e) == ~elevators[e].doorsOpen /\ elevators[e].goingTo = <<>>

\* The events a step has appended.
NewEvents ==
    IF pc = "warmup" THEN SubSeq(events', Len(events) + 1, Len(events'))
    ELSE events'

\* The step has logged an event of elevator e.
C17_Logged(e) ==
    \E k \in 1 .. Len(NewEvents) :
        NewEvents[k] \in {<<"Elevator dropped off a passenger.", e>>,
                          <<"Elevator is now full.", e>>,
                          <<"Elevator ready to move.", e>>}

\* The step is a go command that queues a floor for the idle elevator e.
C17_GoOn(e) ==
    /\ issued' # issued
    /\ \E f \in FloorIds :
           elevators'[e] = [elevators[e] EXCEPT !.goingTo = <<f>>]

\* The step is a dump command that empties elevator e on the last floor.
C17_DumpOn(e) ==
    /\ issued' # issued
    /\ elevators[e].floor = NumFloors - 1
    /\ elevators'[e] = [elevators[e] EXCEPT !.passengers = <<>>]
    /\ events' = <<<<"passengers dumped into the pit.",
                     Len(elevators[e].passengers)>>>>

\* C17 as stated: a tick leaves an idle elevator (doors closed, no
\* destination) as it is and logs no event for it, and the only step that
\* changes an idle elevator is a go command on it.
C17_IdleUntilGo ==
    [][\A e \in ElevatorIds :
           Idle(e) =>
               /\ issued' = issued =>
                      (elevators'[e] = elevators[e] /\ ~C17_Logged(e))
               /\ elevators'[e] # elevators[e] => C17_GoOn(e)]_vars

\* C17, amended: a tick leaves an idle elevator as it is and logs no event
\* for it; the only steps that change an idle elevator are a go command on
\* it, which queues a destination, and a dump command on it while it stands
\* on the last floor, which empties its onboard list.
C17_IdleUntilGoOrDump ==
    [][\A e \in ElevatorIds :
           Idle(e) =>
               /\ issued' = issued =>
                      (elevators'[e] = elevators[e] /\ ~C17_Logged(e))
               /\ elevators'[e] # elevators[e] =>
                      (C17_GoOn(e) \/ C17_DumpOn(e))]_vars

\* An elevator that stood idle on the last floor with a passenger onboard
\* has been emptied by a dump; it is still idle.
C17_Witness ==
    /\ Len(events) = 1
    /\ events[1][1] = "passengers dumped into the pit."
    /\ events[1][2] >= 1
    /\ \E e \in ElevatorIds :
           /\ Idle(e)
           /\ elevators[e].floor = NumFloors - 1
           /\ elevators[e].passengers = <<>>
    /\ \A e \in ElevatorIds : Idle(e)

\* --- movement

\* C18: across a tick an elevator's floor changes by at most 1, and only
\* if its doors are closed at the start of the tick and at its end; a tick
\* that starts with the doors closed leaves the onboard list as it is (no
\* boarding, debark or eviction); a command leaves every elevator's floor as
\* it is.
C18_MovementSafety ==
    [][\A e \in ElevatorIds :
           /\ issued' = issued =>
                  /\ elevators'[e].floor - elevators[e].floor \in {-1, 0, 1}
                  /\ elevators'[e].floor # elevators[e].floor =>
                         (~elevators[e].doorsOpen /\ ~elevators'[e].doorsOpen)
                  /\ ~elevators[e].doorsOpen =>
                         elevators'[e].passengers = elevators[e].passengers
           /\ issued' # issued =>
                  elevators'[e].floor = elevators[e].floor]_vars

\* An elevator is on its way with a passenger onboard: it has left the
\* floor it started from, and its doors are closed.
C18_Witness ==
    \E e \in ElevatorIds :
        /\ trip[e] # NoTrip
        /\ trip[e].ticks >= 1
        /\ elevators[e].floor # trip[e].from
        /\ ~elevators[e].doorsOpen
        /\ elevators[e].passengers # <<>>

\* --- where passengers wait

\* No passenger waits on its target floor.
C19_NoneWaitsAtTarget ==
    \A f \in FloorIds :
        \A k \in 1 .. Len(floors[f].passengers) :
            floors[f].passengers[k].targetFloor # f

\* The targets drawn for an origin floor are exactly the other floors.
C19_TargetsAreOthers ==
    \A originFloor \in FloorIds :
        {TargetFloor(originFloor, draw) : draw \in 0 .. (NumFloors - 2)}
            = FloorIds \ {originFloor}

\* C19: no passenger waiting on floor i targets floor i: arrivals get any
\* floor but their origin as target, and a passenger put out of an elevator
\* lands on a floor that is not its target; so an elevator that has boarded
\* a passenger in a tick holds nobody for the floor it stands on: the
\* passenger does not debark there.
C19_WaitingElsewhere ==
    [][/\ C19_TargetsAreOthers
       /\ C19_NoneWaitsAtTarget
       /\ C19_NoneWaitsAtTarget'
       /\ issued' = issued =>
              \A e \in ElevatorIds :
                  Len(elevators'[e].passengers) = Len(elevators[e].passengers) + 1 =>
                      /\ Tail(elevators'[e].passengers) = elevators[e].passengers
                      /\ elevators'[e].floor = elevators[e].floor
                      /\ \A k \in 1 .. Len(elevators'[e].passengers) :
                             elevators'[e].passengers[k].targetFloor
                                 # elevators'[e].floor]_vars

\* An elevator open on the last floor has boarded a passenger for floor 0
\* while a passenger for the last floor waits on floor 0.
C19_Witness ==
    \E e \in ElevatorIds :
        /\ elevators[e].doorsOpen
        /\ elevators[e].floor = NumFloors - 1
        /\ elevators[e].passengers # <<>>
        /\ Head(elevators[e].passengers).targetFloor = 0
        /\ floors[0].passengers # <<>>
        /\ Head(floors[0].passengers).targetFloor = NumFloors - 1

\* --- serving the destinations

\* The ticks an elevator with open doors can still keep them open: one for
\* each onboard passenger up to the last one that targets its floor (debark
\* or eviction), one for each free place once they are gone (boarding), and
\* the tick that closes the doors.
C20_OpenTicksLeft(elevator) ==
    LET matching == {k \in 1 .. Len(elevator.passengers) :
                        elevator.passengers[k].targetFloor = elevator.floor}
        leaving == IF matching = {} THEN 0
                   ELSE CHOOSE k \in matching : \A m \in matching : m <= k
    IN  leaving + (elevator.capacity - (Len(elevator.passengers) - leaving)) + 1

\* A tick in which a passenger arrives on floor f, then a dump of elevator e.
C20_TickAndDump(state, e, f) ==
    handleAction(
        update(state, [arrive |-> TRUE, originFloor |-> f, draw |-> 0, roll |-> 0]),
        Cmd("dump", <<Num(e)>>), NoArrival)

RECURSIVE C20_TicksAndDumps(_, _, _, _)
C20_TicksAndDumps(state, e, f, n) ==
    IF n = 0 THEN state
    ELSE C20_TicksAndDumps(C20_TickAndDump(state, e, f), e, f, n - 1)

\* C20 as stated, on the doors: an elevator with open doors has closed them
\* after at most capacity + capacity + 1 ticks, whatever arrives and
\* whatever is commanded in between (here: a passenger arrives on its floor
\* in every tick and it is dumped after every tick).
C20_DoorsCloseInTime ==
    \A e \in ElevatorIds :
        elevators[e].doorsOpen =>
            \E n \in 1 .. (2 * elevators[e].capacity + 1) :
                ~C20_TicksAndDumps(State, e, elevators[e].floor, n)
                     .elevators[e].doorsOpen

C20_Gap(floor, d) == IF d >= floor THEN d - floor ELSE floor - d

\* The ticks it takes at most to pop every destination of queue q from
\* `floor` with doors closed: to each one the way and the tick that pops it,
\* and between two the ticks for which the doors can stay open.
RECURSIVE C20_Route(_, _, _)
C20_Route(floor, q, capacity) ==
    IF q = <<>> THEN 0
    ELSE C20_Gap(floor, Head(q)) + 1
         + (IF Tail(q) = <<>> THEN 0
            ELSE 2 * capacity + 1 + C20_Route(Head(q), Tail(q), capacity))

\* The ticks it takes at most to empty the elevator's queue.
C20_TicksToServe(elevator) ==
    IF elevator.goingTo = <<>> THEN 0
    ELSE (IF elevator.doorsOpen THEN C20_OpenTicksLeft(elevator) ELSE 0)
         + C20_Route(elevator.floor, elevator.goingTo, elevator.capacity)

\* Step by step: a queue changes only by a go appending at its back or by
\* a tick popping its front with the elevator standing on that floor, doors
\* closed before and open after; with doors open, a tick closes them or
\* leaves one tick less for which they can stay open, of at most capacity +
\* capacity + 1; and every tick leaves fewer ticks to serve what is queued.
C20_Steps ==
    [][\A e \in ElevatorIds :
           LET el == elevators[e]
               after == elevators'[e]
               tick == issued' = issued
               pop == /\ tick
                      /\ el.goingTo # <<>>
                      /\ el.floor = Head(el.goingTo)
                      /\ ~el.doorsOpen
                      /\ after = [el EXCEPT !.goingTo = Tail(@),
                                            !.doorsOpen = TRUE]
           IN  /\ after.goingTo # el.goingTo =>
                      \/ pop
                      \/ /\ ~tick
                         /\ \E f \in FloorIds :
                                after = [el EXCEPT !.goingTo = Append(@, f)]
               /\ el.doorsOpen =>
                      /\ C20_OpenTicksLeft(el) <= 2 * el.capacity + 1
                      /\ tick =>
                             \/ ~after.doorsOpen
                             \/ C20_OpenTicksLeft(after) < C20_OpenTicksLeft(el)
               /\ (tick /\ el.goingTo # <<>>) =>
                      C20_TicksToServe(after) < C20_TicksToServe(el)]_vars

\* With ticks being applied: once the caller has issued its commands, if
\* more ticks remain than it takes to serve what is queued, every queue is
\* emptied before the game is over.
C20_Served ==
    (/\ pc = "main"
     /\ issued = MaxCommands
     /\ \A e \in ElevatorIds : timeRemaining > C20_TicksToServe(elevators[e]))
        ~> (~failed /\ \A e \in ElevatorIds : elevators[e].goingTo = <<>>)

\* C20, amended: provided ticks keep being applied, every queued
\* destination is popped, in the order queued, with the elevator standing on
\* it and its doors opening; an elevator with open doors closes them within
\* capacity + capacity + 1 ticks, whatever arrives and whatever other
\* elevators do, unless it is dumped in between.
C20_ServedInOrder == C20_Steps /\ C20_Served

\* Of two destinations queued for an elevator, the first has been served
\* (its doors are open there) and the second is next.
C20_Witness ==
    \E e \in ElevatorIds :
        /\ issued = 2
        /\ elevators[e].doorsOpen
        /\ elevators[e].floor # 0
        /\ Len(elevators[e].goingTo) = 1
        /\ elevators[e].goingTo[1] # elevators[e].floor

====
